---- MODULE Spec2Model ----
(***************************************************************************)
(* Model of qnap_decrypt: the three-stage directory pipeline of            *)
(* lib/worker.go (fileReader -> dataDecryptor -> fileWriter), the          *)
(* streaming CBC decryptor with deferred padding removal, the buffered      *)
(* stream adapters of lib/buffer.go and the resumable state tracker         *)
(* (lib/state.go, append log; and the JSON full-rewrite version whose       *)
(* SaveState lib/worker.go calls).                                          *)
(*                                                                          *)
(* Bytes are integers 0..255, files are byte sequences, relative paths are  *)
(* the integers 1..NFiles.  AES and MD5 are library primitives outside the  *)
(* repository; they are replaced by a small invertible byte cipher and a    *)
(* checksum, chained in CBC fashion exactly as the code chains them.        *)
(***************************************************************************)
EXTENDS Integers, Sequences, FiniteSets, TLC

(***************************************************************************)
(* Program constants.                                                       *)
(***************************************************************************)
SALT_SIZE == 8
BLOCK_SIZE == 16
SALT_STR == <<83, 97, 108, 116, 101, 100, 95, 95>>      \* "Salted__"

(***************************************************************************)
(* Bounds of the model.  The channel capacities are 4, 100 and 100 in the   *)
(* source (worker.go:82,83,157,252); the model keeps them as parameters and *)
(* checks small values, with files that have more chunks than a data        *)
(* channel holds.                                                           *)
(***************************************************************************)
NFiles == 2
MaxRuns == 2
MaxFaults == 1
InputChanCap == 1
OutputChanCap == 1
DataChanCap == 1

\* ctx.BufferSize: the configured chunk size, a multiple of the cipher block.
BufferSize == 2 * BLOCK_SIZE

NoPath == 0                       \* the empty path "" of sortFilesByInode

Min(a, b) == IF a < b THEN a ELSE b
Take(s, n) == SubSeq(s, 1, Min(n, Len(s)))
Drop(s, n) == SubSeq(s, Min(n, Len(s)) + 1, Len(s))
Repeat(x, n) == [i \in 1..n |-> x]

RECURSIVE SumSeq(_)
SumSeq(s) == IF s = <<>> THEN 0 ELSE Head(s) + SumSeq(Tail(s))

(***************************************************************************)
(* Key derivation and block cipher (library stand-ins).                     *)
(***************************************************************************)
Password == <<112, 119>>

EVP_BytesToKey(salt, password) ==
    LET k == (SumSeq(password) + 3 * SumSeq(salt)) % 256
    IN [key |-> k, iv |-> [i \in 1..BLOCK_SIZE |-> (k + 11 * i) % 256]]

\* block.Decrypt / block.Encrypt of one 16-byte block
BlockDecrypt(key, c) == [i \in 1..Len(c) |-> (c[i] + 256 - key) % 256]
BlockEncrypt(key, p) == [i \in 1..Len(p) |-> (p[i] + key) % 256]

\* ecb.CryptBlocks(outBuffer, inBuffer) of a CBC decrypter whose chaining
\* value is prev: the decrypted block combined with the previous cipher block
CryptBlocks(key, prev, c) ==
    LET d == BlockDecrypt(key, c)
    IN [i \in 1..Len(c) |-> (d[i] + 256 - prev[i]) % 256]

\* the producer side of the envelope (openssl enc -aes-256-cbc -salt)
RECURSIVE CBCEncrypt(_, _, _)
CBCEncrypt(key, prev, p) ==
    IF p = <<>> THEN <<>>
    ELSE LET b == Take(p, BLOCK_SIZE)
             c == BlockEncrypt(key, [i \in 1..BLOCK_SIZE |-> (b[i] + prev[i]) % 256])
         IN c \o CBCEncrypt(key, c, Drop(p, BLOCK_SIZE))

PKCS5Padding(pt) ==
    LET p == BLOCK_SIZE - (Len(pt) % BLOCK_SIZE) IN pt \o Repeat(p, p)

Salt == <<1, 2, 3, 4, 5, 6, 7, 8>>

\* magic + salt + CBC ciphertext of the given whole blocks
EnvelopeOfBlocks(blocks) ==
    LET km == EVP_BytesToKey(Salt, Password)
    IN SALT_STR \o Salt \o CBCEncrypt(km.key, km.iv, blocks)

Envelope(pt) == EnvelopeOfBlocks(PKCS5Padding(pt))

PlainBytes(n) == [i \in 1..n |-> 33 + ((7 * i) % 90)]

(***************************************************************************)
(* The source trees of the model.  A kind is one source file: its bytes     *)
(* and, for a valid envelope, the plaintext it was made from.               *)
(***************************************************************************)
BigLen == BufferSize * DataChanCap + 8    \* more chunks than a data channel holds

Kind(name, bytes, valid, plain) ==
    [name |-> name, bytes |-> bytes, valid |-> valid, plain |-> plain]

Catalogue ==
    << Kind("p1", Envelope(PlainBytes(1)), TRUE, PlainBytes(1)),
       Kind("nomagic", <<88>> \o Tail(Envelope(PlainBytes(1))), FALSE, <<>>),
       Kind("p0", Envelope(<<>>), TRUE, <<>>),
       Kind("big", Envelope(PlainBytes(BigLen)), TRUE, PlainBytes(BigLen)),
       Kind("pad0", EnvelopeOfBlocks(PlainBytes(15) \o <<0>>), FALSE, <<>>),
       Kind("p16", Envelope(PlainBytes(16)), TRUE, PlainBytes(16)),
       Kind("pad17", EnvelopeOfBlocks(PlainBytes(15) \o <<17>>), FALSE, <<>>),
       Kind("big", Envelope(PlainBytes(BigLen)), TRUE, PlainBytes(BigLen)) >>

\* tree s holds NFiles consecutive kinds of the catalogue, starting at s
\* TreeOf(s, n) holds n of them
TreeOf(s, n) == [f \in 1..n |-> Catalogue[((s + f - 2) % Len(Catalogue)) + 1]]
TreeAt(s) == TreeOf(s, NFiles)
Trees == {TreeAt(s) : s \in 1..Len(Catalogue)}

(***************************************************************************)
(* IsOpensslEncrypted (checked by readFile on the first chunk).             *)
(***************************************************************************)
IsOpensslEncrypted(buf) ==
    IF Len(buf) <= 2 * SALT_SIZE THEN FALSE
    ELSE SubSeq(buf, 1, SALT_SIZE) = SALT_STR

(***************************************************************************)
(* PKCS5Trimming: encrypt[:len(encrypt)-int(padding)].  A negative bound    *)
(* is a run-time panic (slice bounds out of range).                         *)
(***************************************************************************)
PKCS5Panics(encrypt) == Len(encrypt) - encrypt[Len(encrypt)] < 0
PKCS5Trimming(encrypt) == SubSeq(encrypt, 1, Len(encrypt) - encrypt[Len(encrypt)])

(***************************************************************************)
(* BufferedWriter.Write over a writer that sends each flushed buffer as     *)
(* one chunk: the new buffer content and the chunks flushed meanwhile.      *)
(***************************************************************************)
RECURSIVE BufferedWrite(_, _, _)
BufferedWrite(wbuf, p, emitted) ==
    IF p = <<>> THEN [buf |-> wbuf, out |-> emitted]
    ELSE IF BufferSize - Len(wbuf) = 0
         THEN BufferedWrite(<<>>, p, Append(emitted, wbuf))
         ELSE LET toWrite == Min(Len(p), BufferSize - Len(wbuf))
              IN BufferedWrite(wbuf \o Take(p, toWrite), Drop(p, toWrite), emitted)

\* BufferedWriter.Flush / Close: nothing is written when wPos = 0
BufferedFlush(wbuf) == IF Len(wbuf) = 0 THEN <<>> ELSE <<wbuf>>

(***************************************************************************)
(* The decryptor's private state while it works on one file:                *)
(* DecipherOpensslReader's header reads and DecryptStreamToStream's         *)
(* inBuffer, outBuffer, first flag, CBC chaining value and the              *)
(* BufferedWriter's buffer.                                                  *)
(***************************************************************************)
Zeros(n) == Repeat(0, n)

NewDecipher ==
    [hdr |-> "magic", inBuf |-> Zeros(BLOCK_SIZE), outBuf |-> Zeros(BLOCK_SIZE),
     first |-> TRUE, key |-> 0, prev |-> Zeros(BLOCK_SIZE), wbuf |-> <<>>,
     err |-> "none"]

\* ChannelReader.Read(p) on a current chunk cur that is not exhausted: copies
\* min(len(p), len(cur)) bytes into p and leaves the rest of p as it was
ReadInto(p, cur) ==
    LET n == Min(Len(p), Len(cur)) IN Take(cur, n) \o SubSeq(p, n + 1, Len(p))

\* Everything DecipherOpensslReader does with one input chunk before it needs
\* the next one: header reads, then one input.Read(inBuffer) per round with
\* the write of the previously held block before CryptBlocks.
RECURSIVE DecipherChunk(_, _, _)
DecipherChunk(d, cur, emitted) ==
    IF cur = <<>> THEN [d |-> d, out |-> emitted]
    ELSE IF d.hdr = "magic" THEN
        IF ReadInto(Zeros(SALT_SIZE), cur) # SALT_STR
        THEN [d |-> [d EXCEPT !.err = "not a openssl encrypted file"], out |-> emitted]
        ELSE DecipherChunk([d EXCEPT !.hdr = "salt"], Drop(cur, SALT_SIZE), emitted)
    ELSE IF d.hdr = "salt" THEN
        LET km == EVP_BytesToKey(ReadInto(Zeros(SALT_SIZE), cur), Password)
        IN DecipherChunk([d EXCEPT !.hdr = "body", !.key = km.key, !.prev = km.iv],
                         Drop(cur, SALT_SIZE), emitted)
    ELSE
        LET inBuffer == ReadInto(d.inBuf, cur)
            w == IF d.first THEN [buf |-> d.wbuf, out |-> emitted]
                 ELSE BufferedWrite(d.wbuf, d.outBuf, emitted)
        IN DecipherChunk([d EXCEPT !.inBuf = inBuffer, !.first = FALSE,
                                   !.outBuf = CryptBlocks(d.key, d.prev, inBuffer),
                                   !.prev = inBuffer, !.wbuf = w.buf],
                         Drop(cur, BLOCK_SIZE), w.out)

\* input.Read returned io.EOF: out.Write(PKCS5Trimming(outBuffer)), return nil,
\* then the deferred bufferedWriter.Close()
DecipherEOF(d) ==
    LET w == BufferedWrite(d.wbuf, PKCS5Trimming(d.outBuf), <<>>)
    IN w.out \o BufferedFlush(w.buf)

\* the whole plaintext chunk sequence the decryptor emits for an input chunk
\* sequence (used to state what a file's output should be)

\* f.Read(buf) with len(buf) = BufferSize at offset off of a regular file
FileRead(bytes, off) == SubSeq(bytes, off + 1, Min(off + BufferSize, Len(bytes)))

RECURSIVE ChunksOf(_, _)
ChunksOf(bytes, off) ==
    IF off >= Len(bytes) THEN <<>>
    ELSE <<FileRead(bytes, off)>> \o ChunksOf(bytes, off + BufferSize)

(***************************************************************************)
(* State.                                                                   *)
(***************************************************************************)
VARIABLES
    tree,          \* the source tree: file -> kind (never changes)
    stateImpl,     \* "txt": lib/state.go; "json": the version with SaveState
    dest,          \* disk: destination file of each path, [exists, data]
    stateFile,     \* disk: the reserved state file, [exists, data]
    run,           \* number of the current ProcessPath call
    phase,         \* "idle", "running", "done", "aborted", "crashed"
    processed,     \* ProcessState.ProcessedFiles (the keys of the map)
    inputChan,     \* ctx.InputChan: queue of files
    outputChan,    \* ctx.OutputChan: queue of files
    closed,        \* which of "input", "output", "error" are closed
    inData,        \* fileData.DataChan of each file handed to Decrypt
    outData,       \* outData.DataChan of each file handed to Persist
    inDataClosed,  \* files whose input DataChan is closed
    outDataClosed, \* files whose output DataChan is closed
    rd,            \* fileReader / readFile: [pc, idx, off, first, buf]
    dc,            \* dataDecryptor: [pc, file, d, pend]
    wr,            \* fileWriter: [pc, file]
    wgDone,        \* stages that have called ctx.wg.Done()
    errs,          \* what the error collector received, per path
    faults,        \* I/O failures that happened: <<run, path, operation>>
    hist,          \* bookkeeping of the run: loaded, opened, forwarded (and the
                   \* order in which each stage took up the files),
                   \* written, consumed, marked, acked, panicked
    st,            \* one decryptor call on its own (see "The decryptor alone")
    fs,            \* the state tracker on named paths (see "The tracker alone")
    bw             \* one BufferedWriter on its own (see "The BufferedWriter")

vars == <<tree, stateImpl, dest, stateFile, run, phase, processed, inputChan,
          outputChan, closed, inData, outData, inDataClosed, outDataClosed,
          rd, dc, wr, wgDone, errs, faults, hist, st, fs, bw>>

\* the files of the source tree
Files == DOMAIN tree
NumFiles == Cardinality(Files)

\* the parts of the state that the directory pipeline never touches
aux == <<st, fs, bw>>
\* their value while the pipeline is what runs
Idle == [pc |-> "idle"]

disk == <<dest, stateFile>>
chans == <<inputChan, outputChan, closed, inData, outData, inDataClosed, outDataClosed>>

Paths == Files \cup {NoPath}

\* sortFilesByInode: out := make([]string, len(files)), then append: the
\* result starts with len(files) empty strings
sortFilesByInode == Repeat(NoPath, NumFiles) \o [i \in 1..NumFiles |-> i]

NoFile == [exists |-> FALSE, data |-> <<>>]
FileOf(data) == [exists |-> TRUE, data |-> data]

NewReader == [pc |-> "next", idx |-> 1, off |-> 0, first |-> TRUE, buf |-> <<>>]
NewDecryptor == [pc |-> "recv", file |-> NoPath, d |-> NewDecipher, pend |-> <<>>]
NewWriter == [pc |-> "recv", file |-> NoPath]

\* after: how the previous ProcessPath call ended
NewHist(acked, after) ==
    [loaded |-> {}, opened |-> {}, forwarded |-> {}, written |-> {},
     consumed |-> [f \in Files |-> <<>>],
     forwardOrder |-> <<>>, decryptOrder |-> <<>>, persistOrder |-> <<>>,
     marked |-> <<>>, acked |-> acked, ackedBefore |-> acked, panicked |-> FALSE,
     after |-> after]

\* the memory of a process that is not running
NoProcess ==
    /\ processed' = {}
    /\ inputChan' = <<>>
    /\ outputChan' = <<>>
    /\ closed' = {}
    /\ inData' = [f \in Files |-> <<>>]
    /\ outData' = [f \in Files |-> <<>>]
    /\ inDataClosed' = {}
    /\ outDataClosed' = {}
    /\ rd' = NewReader
    /\ dc' = NewDecryptor
    /\ wr' = NewWriter
    /\ wgDone' = {}

\* the state before the first call, for a source tree out of trees
PipelineFrom(trees) ==
    /\ tree \in trees
    /\ stateImpl \in {"txt", "json"}
    /\ dest = [f \in Files |-> NoFile]
    /\ stateFile = NoFile
    /\ run = 1
    /\ phase = "idle"
    /\ processed = {}
    /\ inputChan = <<>>
    /\ outputChan = <<>>
    /\ closed = {}
    /\ inData = [f \in Files |-> <<>>]
    /\ outData = [f \in Files |-> <<>>]
    /\ inDataClosed = {}
    /\ outDataClosed = {}
    /\ rd = NewReader
    /\ dc = NewDecryptor
    /\ wr = NewWriter
    /\ wgDone = {}
    /\ errs = [p \in Paths |-> <<>>]
    /\ faults = {}
    /\ hist = NewHist({}, "none")

PipelineInit == PipelineFrom(Trees)

Init ==
    /\ PipelineInit
    /\ st = Idle
    /\ fs = Idle
    /\ bw = Idle

MayFail == Cardinality(faults) < MaxFaults

\* a send on a buffered channel proceeds only while the buffer has room;
\* otherwise the sender is suspended
\* (a send that never waits for room, for comparison)
CanSendUnbounded(queue, capacity) == TRUE
CanSend(queue, capacity) == Len(queue) < capacity
Fault(path, op) == faults' = faults \cup {<<run, path, op>>}

\* ctx.ErrorChan <- err: the collector goroutine drains the channel
ReportError(path, what) == errs' = [errs EXCEPT ![path] = Append(@, what)]

(***************************************************************************)
(* The state tracker's file formats.                                        *)
(***************************************************************************)
LBrace == 0 - 1
RBrace == 0 - 2

RECURSIVE SortedSeq(_)
SortedSeq(S) ==
    IF S = {} THEN <<>>
    ELSE LET m == CHOOSE x \in S : \A y \in S : x <= y
         IN <<m>> \o SortedSeq(S \ {m})

\* json.MarshalIndent(ps.ProcessedFiles): an object with the keys in order
MarshalJSON(S) == <<LBrace>> \o SortedSeq(S) \o <<RBrace>>
\* json.Unmarshal: fails on anything that is not a complete object
ValidJSON(data) == Len(data) >= 2 /\ data[1] = LBrace /\ data[Len(data)] = RBrace
UnmarshalJSON(data) == {data[i] : i \in 2..(Len(data) - 1)}
\* bufio.Scanner over the append log: one path per line
ScanLines(data) == {data[i] : i \in 1..Len(data)}

IsProcessed(relPath) == relPath \in processed

(***************************************************************************)
(* ProcessPath on a directory: LoadState, then processDirectorySequential   *)
(* starts the three stages.  A LoadState error is returned before any       *)
(* stage starts.                                                            *)
(***************************************************************************)
\* LoadState of lib/state.go: a missing log is created empty, an existing
\* one is replayed line by line
LoadStateTxt ==
    IF ~stateFile.exists
    THEN [ok |-> TRUE, set |-> {}, file |-> FileOf(<<>>)]
    ELSE [ok |-> TRUE, set |-> ScanLines(stateFile.data), file |-> stateFile]

\* LoadState of the JSON version: a missing file gives a new state, an
\* existing one must parse
LoadStateJSON ==
    IF ~stateFile.exists
    THEN [ok |-> TRUE, set |-> {}, file |-> stateFile]
    ELSE IF ValidJSON(stateFile.data)
         THEN [ok |-> TRUE, set |-> UnmarshalJSON(stateFile.data), file |-> stateFile]
         ELSE [ok |-> FALSE, set |-> {}, file |-> stateFile]

LoadState == IF stateImpl = "txt" THEN LoadStateTxt ELSE LoadStateJSON

Start ==
    /\ phase = "idle"
    /\ LET r == LoadState
       IN /\ phase' = IF r.ok THEN "running" ELSE "aborted"
          /\ processed' = r.set
          /\ stateFile' = r.file
          /\ hist' = [hist EXCEPT !.loaded = r.set]
    /\ UNCHANGED <<aux, tree, stateImpl, dest, run, inputChan, outputChan, closed,
                   inData, outData, inDataClosed, outDataClosed, rd, dc, wr,
                   wgDone, errs, faults>>

\* os.OpenFile / os.Open / scanner / os.ReadFile of the state file fails
StartFail ==
    /\ phase = "idle"
    /\ MayFail
    /\ stateImpl = "txt" \/ stateFile.exists
    /\ Fault(NoPath, "load")
    /\ phase' = "aborted"
    /\ UNCHANGED <<aux, tree, stateImpl, dest, stateFile, run, processed, inputChan,
                   outputChan, closed, inData, outData, inDataClosed,
                   outDataClosed, rd, dc, wr, wgDone, errs, hist>>

(***************************************************************************)
(* Discover: fileReader and readFile.                                       *)
(***************************************************************************)
rdPath == sortFilesByInode[rd.idx]
NextFile == [NewReader EXCEPT !.idx = rd.idx + 1]

\* the loop is over: the deferred close(ctx.InputChan) and wg.Done()
ReaderFinish ==
    /\ phase = "running" /\ rd.pc = "next"
    /\ rd.idx > Len(sortFilesByInode)
    /\ rd' = [rd EXCEPT !.pc = "done"]
    /\ closed' = closed \cup {"input"}
    /\ wgDone' = wgDone \cup {"read"}
    /\ UNCHANGED <<aux, tree, stateImpl, disk, run, phase, processed, inputChan,
                   outputChan, inData, outData, inDataClosed, outDataClosed,
                   dc, wr, errs, faults, hist>>

\* if ctx.State.IsProcessed(rel) { continue }
ReaderSkip ==
    /\ phase = "running" /\ rd.pc = "next"
    /\ rd.idx <= Len(sortFilesByInode)
    /\ IsProcessed(rdPath)
    /\ rd' = NextFile
    /\ UNCHANGED <<aux, tree, stateImpl, disk, run, phase, processed, chans, dc, wr,
                   wgDone, errs, faults, hist>>

\* os.Open("") of a leading empty entry always fails
ReaderOpenEmpty ==
    /\ phase = "running" /\ rd.pc = "next"
    /\ rd.idx <= Len(sortFilesByInode)
    /\ ~IsProcessed(rdPath)
    /\ rdPath = NoPath
    /\ ReportError(NoPath, "open failed")
    /\ rd' = NextFile
    /\ UNCHANGED <<aux, tree, stateImpl, disk, run, phase, processed, chans, dc, wr,
                   wgDone, faults, hist>>

ReaderOpen ==
    /\ phase = "running" /\ rd.pc = "next"
    /\ rd.idx <= Len(sortFilesByInode)
    /\ ~IsProcessed(rdPath)
    /\ rdPath # NoPath
    /\ rd' = [rd EXCEPT !.pc = "read", !.off = 0, !.first = TRUE, !.buf = <<>>]
    /\ hist' = [hist EXCEPT !.opened = @ \cup {rdPath}]
    /\ UNCHANGED <<aux, tree, stateImpl, disk, run, phase, processed, chans, dc, wr,
                   wgDone, errs, faults>>

ReaderOpenFail ==
    /\ phase = "running" /\ rd.pc = "next"
    /\ rd.idx <= Len(sortFilesByInode)
    /\ ~IsProcessed(rdPath)
    /\ rdPath # NoPath
    /\ MayFail
    /\ Fault(rdPath, "open")
    /\ ReportError(rdPath, "open failed")
    /\ rd' = NextFile
    /\ UNCHANGED <<aux, tree, stateImpl, disk, run, phase, processed, chans, dc, wr,
                   wgDone, hist>>

\* one round of readFile's loop up to its first channel operation
ReaderRead ==
    /\ phase = "running" /\ rd.pc = "read"
    /\ LET buf == FileRead(tree[rdPath].bytes, rd.off)
           isFinal == Len(buf) = 0          \* f.Read returned 0, io.EOF
       IN IF rd.first
          THEN IF ~IsOpensslEncrypted(buf)
               THEN /\ ReportError(rdPath, "not encrypted")
                    /\ rd' = NextFile
                    /\ UNCHANGED <<inData, inDataClosed>>
               ELSE \* fileData.DataChan = make(chan []byte, 100)
                    /\ rd' = [rd EXCEPT !.pc = "sendIn", !.first = FALSE,
                                        !.buf = buf, !.off = rd.off + Len(buf)]
                    /\ inData' = [inData EXCEPT ![rdPath] = <<>>]
                    /\ UNCHANGED <<errs, inDataClosed>>
          ELSE IF isFinal
               THEN \* close(fileData.DataChan); return
                    /\ inDataClosed' = inDataClosed \cup {rdPath}
                    /\ rd' = NextFile
                    /\ UNCHANGED <<errs, inData>>
               ELSE /\ rd' = [rd EXCEPT !.pc = "sendData", !.buf = buf,
                                        !.off = rd.off + Len(buf)]
                    /\ UNCHANGED <<errs, inData, inDataClosed>>
    /\ UNCHANGED <<aux, tree, stateImpl, disk, run, phase, processed, inputChan,
                   outputChan, closed, outData, outDataClosed, dc, wr, wgDone,
                   faults, hist>>

\* f.Read fails with an error other than io.EOF: the error is sent and
\* readFile returns; fileData.DataChan is not closed
ReaderReadFail ==
    /\ phase = "running" /\ rd.pc = "read"
    /\ MayFail
    /\ Fault(rdPath, "read")
    /\ ReportError(rdPath, "read failed")
    /\ rd' = NextFile
    /\ UNCHANGED <<aux, tree, stateImpl, disk, run, phase, processed, chans, dc, wr,
                   wgDone, hist>>

\* ctx.InputChan <- fileData
ReaderSendIn ==
    /\ phase = "running" /\ rd.pc = "sendIn"
    /\ CanSend(inputChan, InputChanCap)
    /\ inputChan' = Append(inputChan, rdPath)
    /\ rd' = [rd EXCEPT !.pc = "sendData"]
    /\ hist' = [hist EXCEPT !.forwarded = @ \cup {rdPath},
                            !.forwardOrder = Append(@, rdPath)]
    /\ UNCHANGED <<aux, tree, stateImpl, disk, run, phase, processed, outputChan,
                   closed, inData, outData, inDataClosed, outDataClosed, dc, wr,
                   wgDone, errs, faults>>

\* fileData.DataChan <- buf
ReaderSendData ==
    /\ phase = "running" /\ rd.pc = "sendData"
    /\ CanSend(inData[rdPath], DataChanCap)
    /\ inData' = [inData EXCEPT ![rdPath] = Append(@, rd.buf)]
    /\ rd' = [rd EXCEPT !.pc = "read", !.buf = <<>>]
    /\ UNCHANGED <<aux, tree, stateImpl, disk, run, phase, processed, inputChan,
                   outputChan, closed, outData, inDataClosed, outDataClosed, dc,
                   wr, wgDone, errs, faults, hist>>

(***************************************************************************)
(* Decrypt: dataDecryptor running DecipherOpensslReader per file.           *)
(***************************************************************************)
\* an unrecovered run-time panic ends the process
Panic ==
    /\ phase' = "crashed"
    /\ NoProcess
    /\ hist' = [hist EXCEPT !.panicked = TRUE]

\* for fileData := range ctx.InputChan
DecRecv ==
    /\ phase = "running" /\ dc.pc = "recv"
    /\ inputChan # <<>>
    /\ dc' = [pc |-> "fwd", file |-> Head(inputChan), d |-> NewDecipher, pend |-> <<>>]
    /\ inputChan' = Tail(inputChan)
    /\ hist' = [hist EXCEPT !.decryptOrder = Append(@, Head(inputChan))]
    /\ UNCHANGED <<aux, tree, stateImpl, disk, run, phase, processed, outputChan,
                   closed, inData, outData, inDataClosed, outDataClosed, rd, wr,
                   wgDone, errs, faults>>

\* the range ends: the deferred close(ctx.OutputChan) and wg.Done()
DecFinish ==
    /\ phase = "running" /\ dc.pc = "recv"
    /\ inputChan = <<>> /\ "input" \in closed
    /\ dc' = [dc EXCEPT !.pc = "done"]
    /\ closed' = closed \cup {"output"}
    /\ wgDone' = wgDone \cup {"decrypt"}
    /\ UNCHANGED <<aux, tree, stateImpl, disk, run, phase, processed, inputChan,
                   outputChan, inData, outData, inDataClosed, outDataClosed, rd,
                   wr, errs, faults, hist>>

\* outData.DataChan = make(chan []byte, 100); ctx.OutputChan <- outData
DecForward ==
    /\ phase = "running" /\ dc.pc = "fwd"
    /\ CanSend(outputChan, OutputChanCap)
    /\ outputChan' = Append(outputChan, dc.file)
    /\ outData' = [outData EXCEPT ![dc.file] = <<>>]
    /\ dc' = [dc EXCEPT !.pc = "run"]
    /\ UNCHANGED <<aux, tree, stateImpl, disk, run, phase, processed, inputChan,
                   closed, inData, inDataClosed, outDataClosed, rd, wr, wgDone,
                   errs, faults, hist>>

\* DecipherOpensslReader returned an error: ctx.ErrorChan <- err;
\* close(outData.DataChan); continue
DecFailed(what) ==
    /\ ReportError(dc.file, what)
    /\ outDataClosed' = outDataClosed \cup {dc.file}
    /\ dc' = [dc EXCEPT !.pc = "recv", !.pend = <<>>]

\* the ChannelReader takes the next chunk and the decryptor works through it
DecConsume ==
    /\ phase = "running" /\ dc.pc = "run" /\ dc.pend = <<>>
    /\ inData[dc.file] # <<>>
    /\ inData' = [inData EXCEPT ![dc.file] = Tail(@)]
    /\ LET r == DecipherChunk(dc.d, Head(inData[dc.file]), <<>>)
       IN IF r.d.err # "none"
          THEN DecFailed(r.d.err)
          ELSE /\ dc' = [dc EXCEPT !.d = r.d, !.pend = r.out]
               /\ UNCHANGED <<errs, outDataClosed>>
    /\ UNCHANGED <<aux, tree, stateImpl, disk, run, phase, processed, inputChan,
                   outputChan, closed, outData, inDataClosed, rd, wr, wgDone,
                   faults, hist>>

\* a flush of the BufferedWriter: outChan <- chunk
DecSend ==
    /\ phase = "running" /\ dc.pc \in {"run", "fin"} /\ dc.pend # <<>>
    /\ CanSend(outData[dc.file], DataChanCap)
    /\ outData' = [outData EXCEPT ![dc.file] = Append(@, Head(dc.pend))]
    /\ dc' = [dc EXCEPT !.pend = Tail(@)]
    /\ UNCHANGED <<aux, tree, stateImpl, disk, run, phase, processed, inputChan,
                   outputChan, closed, inData, inDataClosed, outDataClosed, rd,
                   wr, wgDone, errs, faults, hist>>

\* the input DataChan is closed and drained: the reader reports io.EOF
DecEOF ==
    /\ phase = "running" /\ dc.pc = "run" /\ dc.pend = <<>>
    /\ inData[dc.file] = <<>> /\ dc.file \in inDataClosed
    /\ IF dc.d.hdr # "body"
       THEN /\ DecFailed("header: EOF")
            /\ UNCHANGED <<aux, tree, stateImpl, disk, run, phase, processed,
                           inputChan, outputChan, closed, inData, outData,
                           inDataClosed, rd, wr, wgDone, faults, hist>>
       ELSE IF PKCS5Panics(dc.d.outBuf)
            THEN /\ Panic
                 /\ UNCHANGED <<aux, tree, stateImpl, disk, run, errs, faults>>
            ELSE /\ dc' = [dc EXCEPT !.pc = "fin", !.pend = DecipherEOF(dc.d)]
                 /\ UNCHANGED <<aux, tree, stateImpl, disk, run, phase, processed,
                                inputChan, outputChan, closed, inData, outData,
                                inDataClosed, outDataClosed, rd, wr, wgDone,
                                errs, faults, hist>>

\* (for comparison: a decryptor that goes on to the next file and leaves the
\* output of this one open)
DecCloseLeavingOpen ==
    /\ phase = "running" /\ dc.pc = "fin" /\ dc.pend = <<>>
    /\ dc' = [dc EXCEPT !.pc = "recv"]
    /\ UNCHANGED <<aux, tree, stateImpl, disk, run, phase, processed, inputChan,
                   outputChan, closed, inData, outData, inDataClosed,
                   outDataClosed, rd, wr, wgDone, errs, faults, hist>>

\* close(outData.DataChan) after DecipherOpensslReader returned nil
DecClose ==
    /\ phase = "running" /\ dc.pc = "fin" /\ dc.pend = <<>>
    /\ outDataClosed' = outDataClosed \cup {dc.file}
    /\ dc' = [dc EXCEPT !.pc = "recv"]
    /\ UNCHANGED <<aux, tree, stateImpl, disk, run, phase, processed, inputChan,
                   outputChan, closed, inData, outData, inDataClosed, rd, wr,
                   wgDone, errs, faults, hist>>

(***************************************************************************)
(* Persist: fileWriter.                                                     *)
(***************************************************************************)
\* (for comparison: a receive that leaves the file in the queue)
WrRecvPeek ==
    /\ phase = "running" /\ wr.pc = "recv"
    /\ outputChan # <<>>
    /\ wr' = [pc |-> "mkdir", file |-> Head(outputChan)]
    /\ hist' = [hist EXCEPT !.persistOrder = Append(@, Head(outputChan))]
    /\ UNCHANGED <<aux, tree, stateImpl, disk, run, phase, processed, inputChan,
                   outputChan, closed, inData, outData, inDataClosed,
                   outDataClosed, rd, dc, wgDone, errs, faults>>

\* for fileData := range ctx.OutputChan
WrRecv ==
    /\ phase = "running" /\ wr.pc = "recv"
    /\ outputChan # <<>>
    /\ wr' = [pc |-> "mkdir", file |-> Head(outputChan)]
    /\ outputChan' = Tail(outputChan)
    /\ hist' = [hist EXCEPT !.persistOrder = Append(@, Head(outputChan))]
    /\ UNCHANGED <<aux, tree, stateImpl, disk, run, phase, processed, inputChan,
                   closed, inData, outData, inDataClosed, outDataClosed, rd, dc,
                   wgDone, errs, faults>>

WrFinish ==
    /\ phase = "running" /\ wr.pc = "recv"
    /\ outputChan = <<>> /\ "output" \in closed
    /\ wr' = [wr EXCEPT !.pc = "done"]
    /\ wgDone' = wgDone \cup {"write"}
    /\ UNCHANGED <<aux, tree, stateImpl, disk, run, phase, processed, chans, rd, dc,
                   errs, faults, hist>>

WrMkdir ==
    /\ phase = "running" /\ wr.pc = "mkdir"
    /\ wr' = [wr EXCEPT !.pc = "write"]
    /\ UNCHANGED <<aux, tree, stateImpl, disk, run, phase, processed, chans, rd, dc,
                   wgDone, errs, faults, hist>>

\* os.MkdirAll fails: ctx.ErrorChan <- err; continue
WrMkdirFail ==
    /\ phase = "running" /\ wr.pc = "mkdir"
    /\ MayFail
    /\ Fault(wr.file, "mkdir")
    /\ ReportError(wr.file, "mkdir failed")
    /\ wr' = [wr EXCEPT !.pc = "recv"]
    /\ UNCHANGED <<aux, tree, stateImpl, disk, run, phase, processed, chans, rd, dc,
                   wgDone, hist>>

\* for data := range fileData.DataChan { os.WriteFile(destPath, data, 0644) }:
\* WriteFile creates or truncates destPath and writes data
WrWrite ==
    /\ phase = "running" /\ wr.pc = "write"
    /\ outData[wr.file] # <<>>
    /\ dest' = [dest EXCEPT ![wr.file] = FileOf(Head(outData[wr.file]))]
    /\ outData' = [outData EXCEPT ![wr.file] = Tail(@)]
    /\ hist' = [hist EXCEPT !.written = @ \cup {wr.file},
                            !.consumed[wr.file] = @ \o Head(outData[wr.file])]
    /\ UNCHANGED <<aux, tree, stateImpl, stateFile, run, phase, processed, inputChan,
                   outputChan, closed, inData, inDataClosed, outDataClosed, rd,
                   dc, wr, wgDone, errs, faults>>

\* os.WriteFile fails (before or after truncating): isFailed, break, continue
WrWriteFail ==
    /\ phase = "running" /\ wr.pc = "write"
    /\ outData[wr.file] # <<>>
    /\ MayFail
    /\ Fault(wr.file, "write")
    /\ ReportError(wr.file, "write failed")
    /\ \E truncated \in BOOLEAN :
         dest' = IF truncated THEN [dest EXCEPT ![wr.file] = FileOf(<<>>)] ELSE dest
    /\ outData' = [outData EXCEPT ![wr.file] = Tail(@)]
    /\ wr' = [wr EXCEPT !.pc = "recv"]
    /\ hist' = [hist EXCEPT !.written = @ \cup {wr.file}]
    /\ UNCHANGED <<aux, tree, stateImpl, stateFile, run, phase, processed, inputChan,
                   outputChan, closed, inData, inDataClosed, outDataClosed, rd,
                   dc, wgDone>>

\* the DataChan is closed and drained, isFailed is false:
\* ctx.State.MarkProcessed(fileData.RelPath).  In lib/state.go it appends the
\* path to the log and flushes; in the JSON version it only sets the map
\* entry, and SaveState follows.
WrMark ==
    /\ phase = "running" /\ wr.pc = "write"
    /\ outData[wr.file] = <<>> /\ wr.file \in outDataClosed
    /\ processed' = processed \cup {wr.file}
    /\ IF stateImpl = "txt"
       THEN /\ stateFile' = IF wr.file \in processed THEN stateFile
                            ELSE FileOf(Append(stateFile.data, wr.file))
            /\ wr' = [wr EXCEPT !.pc = "recv"]
            /\ hist' = [hist EXCEPT !.marked = Append(@, wr.file),
                                    !.acked = @ \cup {wr.file}]
       ELSE /\ UNCHANGED stateFile
            /\ wr' = [wr EXCEPT !.pc = "save"]
            /\ hist' = [hist EXCEPT !.marked = Append(@, wr.file)]
    /\ UNCHANGED <<aux, tree, stateImpl, dest, run, phase, chans, rd, dc, wgDone,
                   errs, faults>>

\* lib/state.go: writer.WriteString or writer.Flush fails; the failure is
\* printed and MarkProcessed returns with the map entry set
WrMarkFail ==
    /\ phase = "running" /\ wr.pc = "write"
    /\ outData[wr.file] = <<>> /\ wr.file \in outDataClosed
    /\ stateImpl = "txt" /\ wr.file \notin processed
    /\ MayFail
    /\ Fault(wr.file, "mark")
    /\ processed' = processed \cup {wr.file}
    /\ wr' = [wr EXCEPT !.pc = "recv"]
    /\ hist' = [hist EXCEPT !.marked = Append(@, wr.file)]
    /\ UNCHANGED <<aux, tree, stateImpl, disk, run, phase, chans, rd, dc, wgDone, errs>>

\* SaveState: os.WriteFile(statePath, data, 0644) opens the state file with
\* O_TRUNC ...
WrSaveOpen ==
    /\ phase = "running" /\ wr.pc = "save"
    /\ stateFile' = FileOf(<<>>)
    /\ wr' = [wr EXCEPT !.pc = "save2"]
    /\ UNCHANGED <<aux, tree, stateImpl, dest, run, phase, processed, chans, rd, dc,
                   wgDone, errs, faults, hist>>

WrSaveOpenFail ==
    /\ phase = "running" /\ wr.pc = "save"
    /\ MayFail
    /\ Fault(wr.file, "save")
    /\ ReportError(wr.file, "SaveState failed")
    /\ wr' = [wr EXCEPT !.pc = "recv"]
    /\ UNCHANGED <<aux, tree, stateImpl, disk, run, phase, processed, chans, rd, dc,
                   wgDone, hist>>

\* ... and then writes the marshalled map
WrSaveWrite ==
    /\ phase = "running" /\ wr.pc = "save2"
    /\ stateFile' = FileOf(MarshalJSON(processed))
    /\ wr' = [wr EXCEPT !.pc = "recv"]
    /\ hist' = [hist EXCEPT !.acked = @ \cup {wr.file}]
    /\ UNCHANGED <<aux, tree, stateImpl, dest, run, phase, processed, chans, rd, dc,
                   wgDone, errs, faults>>

WrSaveWriteFail ==
    /\ phase = "running" /\ wr.pc = "save2"
    /\ MayFail
    /\ Fault(wr.file, "save")
    /\ ReportError(wr.file, "SaveState failed")
    /\ wr' = [wr EXCEPT !.pc = "recv"]
    /\ UNCHANGED <<aux, tree, stateImpl, disk, run, phase, processed, chans, rd, dc,
                   wgDone, hist>>

(***************************************************************************)
(* processDirectorySequential's tail, and the world outside the process.    *)
(***************************************************************************)
Stages == {"read", "decrypt", "write"}

\* ctx.wg.Wait() returns; close(ctx.ErrorChan); return nil
\* (for comparison: a main routine that closes the error channel as soon as
\* one stage has signalled completion)
MainDoneEarly ==
    /\ phase = "running"
    /\ wgDone # {}
    /\ closed' = closed \cup {"error"}
    /\ phase' = "done"
    /\ UNCHANGED <<aux, tree, stateImpl, disk, run, processed, inputChan, outputChan,
                   inData, outData, inDataClosed, outDataClosed, rd, dc, wr,
                   wgDone, errs, faults, hist>>

MainDone ==
    /\ phase = "running"
    /\ wgDone = Stages
    /\ closed' = closed \cup {"error"}
    /\ phase' = "done"
    /\ UNCHANGED <<aux, tree, stateImpl, disk, run, processed, inputChan, outputChan,
                   inData, outData, inDataClosed, outDataClosed, rd, dc, wr,
                   wgDone, errs, faults, hist>>

\* the process is killed from outside: its memory is gone, the disk stays
Crash ==
    /\ phase = "running"
    /\ run < MaxRuns
    /\ phase' = "crashed"
    /\ NoProcess
    /\ UNCHANGED <<aux, tree, stateImpl, disk, run, errs, faults, hist>>

\* ProcessPath is called again with the same arguments
Restart ==
    /\ phase \in {"done", "aborted", "crashed"}
    /\ run < MaxRuns
    /\ run' = run + 1
    /\ phase' = "idle"
    /\ NoProcess
    /\ errs' = [p \in Paths |-> <<>>]
    /\ hist' = NewHist(hist.acked, IF hist.panicked THEN "panic" ELSE phase)
    /\ faults' = {<<0, NoPath, i>> : i \in 1..Cardinality(faults)}
    /\ UNCHANGED <<aux, tree, stateImpl, disk>>

ReaderStep ==
    \/ ReaderFinish \/ ReaderSkip \/ ReaderOpenEmpty \/ ReaderOpen \/ ReaderOpenFail
    \/ ReaderRead \/ ReaderReadFail \/ ReaderSendIn \/ ReaderSendData
DecStep ==
    \/ DecRecv \/ DecFinish \/ DecForward \/ DecConsume \/ DecSend \/ DecEOF \/ DecClose
WrStep ==
    \/ WrRecv \/ WrFinish \/ WrMkdir \/ WrMkdirFail \/ WrWrite \/ WrWriteFail
    \/ WrMark \/ WrMarkFail \/ WrSaveOpen \/ WrSaveOpenFail \/ WrSaveWrite
    \/ WrSaveWriteFail

\* what the process itself can do
ProcessStep == Start \/ StartFail \/ ReaderStep \/ DecStep \/ WrStep \/ MainDone

Next == ProcessStep \/ Crash \/ Restart

Spec == Init /\ [][Next]_vars

(***************************************************************************)
(* Properties.                                                              *)
(***************************************************************************)
FaultsNow == {x \in faults : x[1] = run}
FaultedFiles == {x[2] : x \in FaultsNow}

\* the guards of the stages' steps: a stage can move unless it is suspended
\* on a channel (a send on a full one, a receive on an empty open one) or done
ReaderCanStep ==
    \/ rd.pc \in {"next", "read"}
    \/ rd.pc = "sendIn" /\ CanSend(inputChan, InputChanCap)
    \/ rd.pc = "sendData" /\ CanSend(inData[rdPath], DataChanCap)
DecCanStep ==
    \/ dc.pc = "recv" /\ (inputChan # <<>> \/ "input" \in closed)
    \/ dc.pc = "fwd" /\ CanSend(outputChan, OutputChanCap)
    \/ dc.pc \in {"run", "fin"} /\ dc.pend # <<>> /\ CanSend(outData[dc.file], DataChanCap)
    \/ dc.pc = "run" /\ dc.pend = <<>> /\ (inData[dc.file] # <<>> \/ dc.file \in inDataClosed)
    \/ dc.pc = "fin" /\ dc.pend = <<>>
WrCanStep ==
    \/ wr.pc = "recv" /\ (outputChan # <<>> \/ "output" \in closed)
    \/ wr.pc \in {"mkdir", "save", "save2"}
    \/ wr.pc = "write" /\ (outData[wr.file] # <<>> \/ wr.file \in outDataClosed)
CanStep == ReaderCanStep \/ DecCanStep \/ WrCanStep \/ wgDone = Stages

\* the run is over, or no stage can move any more
Quiescent == phase = "done" \/ (phase = "running" /\ ~CanStep)

\* the first chunk readFile reads from a file passes the envelope check
Forwardable(f) == IsOpensslEncrypted(FileRead(tree[f].bytes, 0))

\* the reader has finished with file f in this run
ReaderPast(f) == rd.pc = "done" \/ rd.idx > NumFiles + f

\* C1: every member of the ProcessedSet has a destination file holding
\* exactly the complete plaintext of its source file.
C1_ProcessedImpliesComplete ==
    \A f \in processed :
        tree[f].valid => dest[f].exists /\ dest[f].data = tree[f].plain

\* C2: a run restarted after an interruption that followed the marking of
\* M of the K files (0 < M < K) never opens, forwards, rewrites or re-marks
\* one of the M files, and when it ends without I/O failure it has forwarded
\* exactly the other K - M files.
Interrupted ==
    /\ run > 1 /\ hist.after = "crashed"
    /\ hist.ackedBefore # {} /\ hist.ackedBefore # Files
\* the restarted run leaves the files marked before the interruption alone
MarkedUntouched ==
    /\ hist.opened \cap hist.ackedBefore = {}
    /\ hist.forwarded \cap hist.ackedBefore = {}
    /\ hist.written \cap hist.ackedBefore = {}
    /\ \A i \in 1..Len(hist.marked) : hist.marked[i] \notin hist.ackedBefore

C2_Resumability ==
    Interrupted =>
        /\ MarkedUntouched
        /\ (phase \in {"done", "aborted"} /\ FaultsNow = {}) =>
               hist.forwarded = {f \in Files \ hist.ackedBefore : Forwardable(f)}

\* C3: after a run without I/O failure, every valid envelope's destination
\* file exists and holds the original plaintext (empty for length 0).
C3_RoundTrip ==
    (phase = "done" /\ faults = {}) =>
        \A f \in Files : tree[f].valid => dest[f] = FileOf(tree[f].plain)

\* C4: when a file of the run fails, the run is not aborted and every other
\* valid, not yet processed file ends up marked processed.
C4_FailureIsolation ==
    Quiescent =>
        \A f \in Files :
            (tree[f].valid /\ f \notin FaultedFiles) => f \in processed

\* C5: a run never stops before Done: while it is running, some stage or
\* the caller's wait can take a step.
C5_Termination == phase = "running" => CanStep

\* C6: a file without the magic is never handed to Decrypt, gets no
\* destination file, is never marked and gets exactly one error; valid
\* siblings are still written and marked.
NonMagic(f) == SubSeq(tree[f].bytes, 1, SALT_SIZE) # SALT_STR
OnlyValidOrNonMagic == \A f \in Files : tree[f].valid \/ NonMagic(f)

NonMagicRejected ==
    \A f \in Files : NonMagic(f) =>
        /\ f \notin hist.forwarded
        /\ \A i \in 1..Len(inputChan) : inputChan[i] # f
        /\ dc.file # f /\ wr.file # f
        /\ ~dest[f].exists
        /\ f \notin processed
        /\ Len(errs[f]) <= 1
        /\ (phase \in {"running", "done"} /\ ReaderPast(f)) => Len(errs[f]) = 1

C6_NonMagicRejection ==
    /\ NonMagicRejected
    /\ (phase = "done" /\ FaultsNow = {} /\ OnlyValidOrNonMagic) =>
          \A g \in Files : tree[g].valid => g \in processed /\ dest[g].exists

\* C7: a mark that has returned survives every later crash, and a crash
\* never makes a later load fail.
C7_Durability ==
    /\ (phase = "aborted") => (\E x \in FaultsNow : x[3] = "load")
    /\ (phase \in {"running", "done"}) => hist.ackedBefore \subseteq hist.loaded

\* C8: a final block whose last byte is 0 or more than 16 is rejected: the
\* decryptor emits no final block for it, the file is not marked processed
\* and the run goes on.
LastByte(block) == block[Len(block)]
BadPadding(f) == tree[f].name \in {"pad0", "pad17"}

C8_PaddingValidation ==
    /\ \A f \in processed : ~BadPadding(f)
    /\ dc.pc = "fin" => LastByte(dc.d.outBuf) \in 1..BLOCK_SIZE
    /\ ~hist.panicked

\* C9: no channel ever holds more than its capacity, and the chunks buffered
\* in the data channels that a queue or a stage still refers to are bounded
\* by the capacities alone.
\* the chunks held by the data channels (data) of the files in S
RECURSIVE SumLen(_, _)
SumLen(S, data) ==
    IF S = {} THEN 0
    ELSE LET x == CHOOSE y \in S : TRUE IN Len(data[x]) + SumLen(S \ {x}, data)

InLen(f) == Len(inData[f])
OutLen(f) == Len(outData[f])
LiveIn ==
    {inputChan[i] : i \in 1..Len(inputChan)}
    \cup (IF rd.pc \in {"sendIn", "sendData"} \/ (rd.pc = "read" /\ ~rd.first)
          THEN {rdPath} ELSE {})
    \cup (IF dc.pc \in {"fwd", "run", "fin"} THEN {dc.file} ELSE {})
LiveOut ==
    {outputChan[i] : i \in 1..Len(outputChan)}
    \cup (IF dc.pc \in {"run", "fin"} THEN {dc.file} ELSE {})
    \cup (IF wr.pc \in {"mkdir", "write"} THEN {wr.file} ELSE {})
BufferedChunks == SumLen(LiveIn, inData) + SumLen(LiveOut, outData)
ChunkBound == (InputChanCap + 2) * DataChanCap + (OutputChanCap + 2) * DataChanCap

C9_Backpressure ==
    /\ Len(inputChan) <= InputChanCap
    /\ Len(outputChan) <= OutputChanCap
    /\ \A f \in Files : InLen(f) <= DataChanCap /\ OutLen(f) <= DataChanCap
    /\ Cardinality(LiveIn) <= InputChanCap + 2
    /\ Cardinality(LiveOut) <= OutputChanCap + 2
    /\ BufferedChunks <= ChunkBound

\* Persist has not taken a step, the file in Decrypt has more chunks than a
\* data channel holds, and Decrypt is suspended on the full output data channel
C9_Witness ==
    /\ phase = "running"
    /\ wr.pc = "recv" /\ wr.file = NoPath /\ hist.written = {}
    /\ dc.pc \in {"run", "fin"} /\ dc.pend # <<>> /\ OutLen(dc.file) = DataChanCap
    /\ Len(ChunksOf(tree[dc.file].bytes, 0)) > DataChanCap
    /\ ~DecCanStep

\* C10: a directory run is given up only when LoadState fails; no per-file
\* error ends the run or keeps later files from being attempted.
C10_OnlyLoadAborts ==
    /\ phase = "aborted" =>
          \/ \E x \in FaultsNow : x[3] = "load"
          \/ (stateImpl = "json" /\ stateFile.exists /\ ~ValidJSON(stateFile.data))
    /\ ~hist.panicked
    /\ Quiescent =>
          \A f \in Files \ hist.loaded : f \in hist.opened \/ f \in FaultedFiles

\* C13: when Persist has consumed the whole chunk sequence c1..cn of a file
\* (n >= 1), the destination file holds c1 ++ ... ++ cn.
C13_WrittenInOrder ==
    \A i \in 1..Len(hist.marked) :
        LET f == hist.marked[i]
        IN hist.consumed[f] # <<>> => dest[f] = FileOf(hist.consumed[f])

\* C15: every chunk sequence a producer handed on is closed by that
\* producer once it has finished with the file: by Discover also after a
\* failed read, by Decrypt on success and on error.
C15_EndOfSequence ==
    phase \in {"running", "done"} =>
        /\ \A f \in hist.forwarded : ReaderPast(f) => f \in inDataClosed
        /\ (dc.file # NoPath /\ dc.pc \in {"recv", "done"}) => dc.file \in outDataClosed

\* C16: a file that Persist gave up (MkdirAll or WriteFile failed) is not
\* marked, Decrypt is never left suspended on that file's output sequence,
\* and the other valid files of the run are still marked.
PersistFailed(f) == \E x \in FaultsNow : x[2] = f /\ x[3] \in {"mkdir", "write"}
\* Decrypt waits for room in the output sequence of f, which nobody reads
SuspendedOn(f) ==
    /\ dc.file = f /\ dc.pc \in {"run", "fin"} /\ dc.pend # <<>>
    /\ ~CanSend(outData[f], DataChanCap)
    /\ wr.file # f \/ wr.pc = "recv"

C16_PersistFailure ==
    phase = "running" =>
        \A f \in Files : PersistFailed(f) =>
            /\ \A i \in 1..Len(hist.marked) : hist.marked[i] # f
            /\ ~SuspendedOn(f)
            /\ ~CanStep => \A g \in Files \ {f} : tree[g].valid => g \in processed

\* C18: Discover tries to open the regular files that are not in the loaded
\* set, each once, and nothing else; when every file is readable and valid,
\* the error sink receives nothing.
AllValid == \A f \in Files : tree[f].valid
OpenTried == hist.opened \cup {x[2] : x \in {y \in FaultsNow : y[3] = "open"}}

C18_DiscoverOpens ==
    phase \in {"running", "done"} =>
        /\ errs[NoPath] = <<>>
        /\ OpenTried \cap hist.loaded = {}
        /\ rd.pc = "done" => OpenTried = Files \ hist.loaded
        /\ (phase = "done" /\ FaultsNow = {} /\ AllValid) =>
               \A q \in Paths : errs[q] = <<>>

(***************************************************************************)
(* The pipeline with a failing decryptor input.  DecryptStreamToStream      *)
(* returns any error of input.Read other than io.EOF, DecipherOpensslReader *)
(* wraps it and its deferred bufferedWriter.Close() flushes what is         *)
(* buffered; dataDecryptor sends the error and closes outData.DataChan.     *)
(***************************************************************************)
DecReadFail ==
    /\ phase = "running" /\ dc.pc = "run" /\ dc.pend = <<>>
    /\ MayFail
    /\ Fault(dc.file, "decrypt")
    /\ ReportError(dc.file, "decrypt failed")
    /\ dc' = [dc EXCEPT !.pc = "fin", !.pend = BufferedFlush(dc.d.wbuf)]
    /\ UNCHANGED <<aux, tree, stateImpl, disk, run, phase, processed, chans, rd,
                   wr, wgDone, hist>>

ReadErrorNext == Next \/ DecReadFail
ReadErrorSpec == Init /\ [][ReadErrorNext]_vars

\* C14: a file for which Decrypt reported an error and closed the output
\* sequence early is not marked processed by Persist.
DecryptFailed(f) == \E x \in FaultsNow : x[2] = f /\ x[3] = "decrypt"

C14_NoMarkAfterDecryptError ==
    \A f \in Files : DecryptFailed(f) =>
        /\ f \notin processed
        /\ \A i \in 1..Len(hist.marked) : hist.marked[i] # f

(***************************************************************************)
(* The decryptor alone.  One source file goes through readFile's envelope   *)
(* check and chunking with a configured buffer size, and one decryptor call *)
(* reads the chunks through its input reader, one Read call per step.       *)
(* Two versions of the decryptor are in the sources:                        *)
(*   "reader": DecipherOpensslReader (the one dataDecryptor calls), fed by  *)
(*             the chunks of readFile, with the first flag;                 *)
(*   "file":   DecipherOpensslFile of lib/lib.go, which seeks past the      *)
(*             magic, reads the salt and the blocks from the file itself,   *)
(*             and whose loop has no first flag;                            *)
(*   "buffered": the command-line flow through a BufferedReader of the      *)
(*             configured size: IsOpensslReader, then DecipherOpensslReader *)
(*             seeking and reading the salt on the file and the blocks      *)
(*             through the BufferedReader, with the first flag.             *)
(***************************************************************************)
ChunkSizes == {8, 16, 24, 32, 48}

\* a file with magic and salt and nothing else: 2 * SALT_SIZE bytes
StreamKinds ==
    {Catalogue[i] : i \in 1..Len(Catalogue)}
    \cup {Kind("hdronly", SALT_STR \o Salt, FALSE, <<>>)}

\* the chunks readFile sends for a file with ctx.BufferSize = size
RECURSIVE FileChunks(_, _)
FileChunks(bytes, size) ==
    IF bytes = <<>> THEN <<>>
    ELSE <<Take(bytes, size)>> \o FileChunks(Drop(bytes, size), size)

\* IsOpensslReader: reader.Read(buf) of SALT_SIZE bytes on the BufferedReader,
\* whose first fill is buf; no data is io.EOF
IsOpensslReader(buf) ==
    buf # <<>> /\ ReadInto(Zeros(SALT_SIZE), buf) = SALT_STR

NewStream(impl, kind, size) ==
    [pc |-> IF impl = "file" THEN "magic" ELSE "discover",
     impl |-> impl, kind |-> kind, size |-> size,
     forwarded |-> FALSE,
     chunks |-> IF impl = "reader" THEN <<>> ELSE <<kind.bytes>>,
     cur |-> <<>>,
     inBuf |-> Zeros(BLOCK_SIZE), outBuf |-> Zeros(BLOCK_SIZE),
     first |-> impl # "file", key |-> 0, prev |-> Zeros(BLOCK_SIZE),
     k |-> 0, written |-> <<>>]

\* what the next Read call of the input reader sees: the rest of the current
\* chunk, or the next chunk when the current one is drained
StreamAvail ==
    IF st.cur # <<>> THEN st.cur
    ELSE IF st.chunks # <<>> THEN Head(st.chunks) ELSE <<>>
StreamRest == IF st.cur # <<>> THEN st.chunks ELSE Tail(st.chunks)
\* the reader after a Read call with len(p) = n that found data
AfterRead(n) == [st EXCEPT !.cur = Drop(StreamAvail, n), !.chunks = StreamRest]

Untouched ==
    UNCHANGED <<fs, bw, tree, stateImpl, dest, stateFile, run, phase, processed,
                inputChan, outputChan, closed, inData, outData, inDataClosed,
                outDataClosed, rd, dc, wr, wgDone, errs, faults, hist>>

StreamInit ==
    /\ PipelineInit
    /\ tree = TreeAt(1) /\ stateImpl = "json"
    /\ fs = Idle
    /\ bw = Idle
    /\ st \in {NewStream(impl, kind, size) :
                 impl \in {"reader", "file", "buffered"}, kind \in StreamKinds, size \in ChunkSizes}

\* readFile: the first Read of the file fills at most ctx.BufferSize bytes,
\* IsOpensslEncrypted is applied to that chunk, and an accepted file is
\* forwarded and sent chunk by chunk
StreamDiscover ==
    /\ st.pc = "discover"
    /\ LET buf == Take(st.kind.bytes, st.size)
       IN st' = IF st.impl = "reader"
                THEN IF IsOpensslEncrypted(buf)
                     THEN [st EXCEPT !.pc = "magic", !.forwarded = TRUE,
                                     !.chunks = FileChunks(st.kind.bytes, st.size)]
                     ELSE [st EXCEPT !.pc = "rejected"]
                ELSE IF IsOpensslReader(buf)
                     THEN [st EXCEPT !.pc = "magic", !.forwarded = TRUE]
                     ELSE [st EXCEPT !.pc = "rejected"]
    /\ Untouched

\* reader.Read(saltMagic) and the comparison with "Salted__" in
\* DecipherOpensslReader; f.Seek(SALT_SIZE, 0) in DecipherOpensslFile
StreamMagic ==
    /\ st.pc = "magic"
    /\ LET n == Min(SALT_SIZE, Len(StreamAvail))
           saltMagic == ReadInto(Zeros(SALT_SIZE), StreamAvail)
       IN st' = IF st.impl # "reader"
                THEN [AfterRead(n) EXCEPT !.pc = "salt"]
                ELSE IF StreamAvail = <<>> \/ saltMagic # SALT_STR
                     THEN [st EXCEPT !.pc = "error"]
                     ELSE [AfterRead(n) EXCEPT !.pc = "salt"]
    /\ Untouched

\* Read(salt) and EVP_BytesToKey.  The versions that read the salt from the
\* file ignore the result of f.Read(salt); the one fed by chunks returns on a
\* read error.  The BufferedReader then fills its buffer from the file's
\* position, bufferSize bytes at a time
StreamSalt ==
    /\ st.pc = "salt"
    /\ LET n == Min(SALT_SIZE, Len(StreamAvail))
           salt == ReadInto(Zeros(SALT_SIZE), StreamAvail)
           km == EVP_BytesToKey(salt, Password)
       IN st' = IF StreamAvail = <<>> /\ st.impl = "reader"
                THEN [st EXCEPT !.pc = "error"]
                ELSE IF st.impl = "buffered"
                     THEN [st EXCEPT !.pc = "body", !.key = km.key, !.prev = km.iv,
                                     !.cur = <<>>,
                                     !.chunks = FileChunks(Drop(StreamAvail, n), st.size)]
                     ELSE [AfterRead(n) EXCEPT !.pc = "body", !.key = km.key,
                                               !.prev = km.iv]
    /\ Untouched

\* one pass of the loop of DecryptStreamToStream whose input.Read(inBuffer)
\* returns without error: the number of bytes read is not looked at
StreamBlock ==
    /\ st.pc = "body"
    /\ StreamAvail # <<>>
    /\ LET n == Min(BLOCK_SIZE, Len(StreamAvail))
           inBuffer == ReadInto(st.inBuf, StreamAvail)
       IN st' = [AfterRead(n) EXCEPT
                    !.inBuf = inBuffer,
                    !.written = IF st.first THEN @ ELSE @ \o st.outBuf,
                    !.first = FALSE,
                    !.outBuf = CryptBlocks(st.key, st.prev, inBuffer),
                    !.prev = inBuffer,
                    !.k = @ + 1]
    /\ Untouched

\* input.Read returns io.EOF: out.Write(PKCS5Trimming(outBuffer))
StreamEOF ==
    /\ st.pc = "body"
    /\ StreamAvail = <<>>
    /\ st' = IF PKCS5Panics(st.outBuf)
             THEN [st EXCEPT !.pc = "panic"]
             ELSE [st EXCEPT !.pc = "done",
                             !.written = @ \o PKCS5Trimming(st.outBuf)]
    /\ Untouched

StreamNext ==
    \/ StreamDiscover
    \/ StreamMagic
    \/ StreamSalt
    \/ StreamBlock
    \/ StreamEOF
StreamSpec == StreamInit /\ [][StreamNext]_vars

(***************************************************************************)
(* The decryption of cipher block i of an envelope, computed on the whole   *)
(* byte sequence: the key and IV from the salt, each block chained on the   *)
(* cipher block before it.                                                  *)
(***************************************************************************)
CipherBlock(bytes, i) == SubSeq(bytes, BLOCK_SIZE * i + 1, BLOCK_SIZE * i + BLOCK_SIZE)
KeyOf(bytes) == EVP_BytesToKey(SubSeq(bytes, SALT_SIZE + 1, 2 * SALT_SIZE), Password)
PlainBlock(bytes, i) ==
    CryptBlocks(KeyOf(bytes).key,
                IF i = 1 THEN KeyOf(bytes).iv ELSE CipherBlock(bytes, i - 1),
                CipherBlock(bytes, i))
RECURSIVE PlainBlocks(_, _)
PlainBlocks(bytes, n) ==
    IF n <= 0 THEN <<>> ELSE PlainBlocks(bytes, n - 1) \o PlainBlock(bytes, n)

WholeBlocks(bytes) == Len(bytes) > BLOCK_SIZE /\ Len(bytes) % BLOCK_SIZE = 0
AlignedReads == st.impl = "file" \/ st.size % BLOCK_SIZE = 0

\* C17: with reads of whole blocks, after k >= 1 cipher blocks the decryptor
\* has emitted exactly the decrypted blocks 1..k-1 and holds block k; at
\* end-of-input it has emitted blocks 1..k-1 and block k without its last p
\* bytes, 16*k - p bytes in all
C17_DeferredTrim ==
    (AlignedReads /\ WholeBlocks(st.kind.bytes) /\ st.k >= 1) =>
        LET b == st.kind.bytes
            p == PlainBlock(b, st.k)[BLOCK_SIZE]
        IN /\ st.pc = "body" =>
                /\ st.written = PlainBlocks(b, st.k - 1)
                /\ st.outBuf = PlainBlock(b, st.k)
           /\ st.pc = "done" =>
                /\ st.written = PlainBlocks(b, st.k - 1)
                                    \o Take(PlainBlock(b, st.k), BLOCK_SIZE - p)
                /\ Len(st.written) = BLOCK_SIZE * st.k - p

\* the envelope test on the whole file: the magic, and more than magic and salt
HasEnvelope(bytes) ==
    Len(bytes) > 2 * SALT_SIZE /\ Take(bytes, SALT_SIZE) = SALT_STR

\* C19: for every buffer size, readFile forwards a file to the decryptor
\* exactly when the file starts with the magic and is longer than 16 bytes
C19_EnvelopeGate ==
    (st.impl = "reader" /\ st.pc # "discover") =>
        (st.forwarded <=> HasEnvelope(st.kind.bytes))

\* what the decryptor emits for an envelope of n whole cipher blocks read
\* block by block
BodyBlocks(bytes) == (Len(bytes) \div BLOCK_SIZE) - 1
EmittedWhole(bytes) ==
    PlainBlocks(bytes, BodyBlocks(bytes) - 1)
        \o PKCS5Trimming(PlainBlock(bytes, BodyBlocks(bytes)))

\* C20: for every buffer size, the k-th block passed to CryptBlocks is the
\* k-th 16 consecutive bytes of the ciphertext, and the plaintext emitted at
\* end-of-input is the one emitted for whole-block reads
C20_ChunkIndependence ==
    (st.impl \in {"reader", "buffered"} /\ WholeBlocks(st.kind.bytes)) =>
        LET b == st.kind.bytes
        IN /\ (st.pc \in {"body", "done", "panic"} /\ st.k >= 1) =>
                st.inBuf = CipherBlock(b, st.k)
           /\ st.pc = "done" => st.written = EmittedWhole(b)
           /\ st.pc = "panic" => PKCS5Panics(PlainBlock(b, BodyBlocks(b)))

(***************************************************************************)
(* The state tracker alone, on paths and file contents as byte sequences.   *)
(* Two versions of the tracker are in the sources: the append log of        *)
(* lib/state.go ("txt": one line per path, replayed by a bufio.Scanner) and *)
(* the JSON one ("json": the whole map rewritten by SaveState).  The file   *)
(* writer stores each output at filepath.Join(destDir, relPath) and then    *)
(* marks the path.                                                          *)
(***************************************************************************)
NewLine == 10
CarriageReturn == 13
DoubleQuote == 34
Backslash == 92
Slash == 47
LetterN == 110
LetterR == 114
OpenBrace == 123
CloseBrace == 125

StateFileName(impl) ==
    IF impl = "txt"
    THEN <<46, 113, 110, 97, 112, 95, 100, 101, 99, 114, 121, 112, 116, 95,
           115, 116, 97, 116, 101, 46, 116, 120, 116>>
    ELSE <<46, 113, 110, 97, 112, 95, 100, 101, 99, 114, 121, 112, 116, 95,
           115, 116, 97, 116, 101, 46, 106, 115, 111, 110>>

\* relative paths of source files: "a", "b", "a<newline>b", "a<return>", and a
\* file at the root of the tree that has the state file's name
PathA == <<97>>
PathB == <<98>>
PathNL == <<97, NewLine, 98>>
PathCR == <<97, CarriageReturn>>
RelPaths(impl) == {PathA, PathB, PathNL, PathCR, StateFileName(impl)}

\* filepath.Join(ctx.DestDir, relPath), for the destination root "d"
DestDir == <<100>>
Join(dir, rel) == dir \o <<Slash>> \o rel
StatePath(impl) == Join(DestDir, StateFileName(impl))
DestPaths(impl) == {Join(DestDir, r) : r \in RelPaths(impl)}

\* bufio.Scanner with the default split function: lines end at a newline, one
\* trailing carriage return is dropped, a last line without newline counts
\* when it is not empty
DropCR(line) ==
    IF line # <<>> /\ line[Len(line)] = CarriageReturn
    THEN SubSeq(line, 1, Len(line) - 1) ELSE line
RECURSIVE ScanText(_, _)
ScanText(data, line) ==
    IF data = <<>> THEN (IF line = <<>> THEN {} ELSE {DropCR(line)})
    ELSE IF Head(data) = NewLine
         THEN {DropCR(line)} \cup ScanText(Tail(data), <<>>)
         ELSE ScanText(Tail(data), Append(line, Head(data)))

\* encoding/json string escapes of the bytes that occur in the paths
RECURSIVE QuoteJSON(_)
QuoteJSON(str) ==
    IF str = <<>> THEN <<>>
    ELSE LET c == Head(str)
         IN (IF c = NewLine THEN <<Backslash, LetterN>>
             ELSE IF c = CarriageReturn THEN <<Backslash, LetterR>>
             ELSE IF c \in {Backslash, DoubleQuote} THEN <<Backslash, c>>
             ELSE <<c>>) \o QuoteJSON(Tail(str))
UnescapeJSON(c) ==
    IF c = LetterN THEN NewLine ELSE IF c = LetterR THEN CarriageReturn ELSE c

\* keys in sorted order, as json.Marshal writes a map
RECURSIVE SeqLess(_, _)
SeqLess(a, b) ==
    IF a = <<>> THEN b # <<>>
    ELSE IF b = <<>> THEN FALSE
    ELSE IF Head(a) # Head(b) THEN Head(a) < Head(b)
    ELSE SeqLess(Tail(a), Tail(b))
RECURSIVE SortedKeys(_)
SortedKeys(S) ==
    IF S = {} THEN <<>>
    ELSE LET m == CHOOSE x \in S : \A y \in S \ {x} : SeqLess(x, y)
         IN <<m>> \o SortedKeys(S \ {m})
RECURSIVE QuoteAll(_)
QuoteAll(keys) ==
    IF keys = <<>> THEN <<>>
    ELSE <<DoubleQuote>> \o QuoteJSON(Head(keys)) \o <<DoubleQuote>>
            \o QuoteAll(Tail(keys))

\* json.MarshalIndent(ps.ProcessedFiles): a brace, the quoted keys in order,
\* a brace (the values, separators and indentation are left out)
MarshalIndent(S) == <<OpenBrace>> \o QuoteAll(SortedKeys(S)) \o <<CloseBrace>>

\* json.Unmarshal on the bytes after the opening brace
RECURSIVE UnmarshalKeys(_, _, _)
UnmarshalKeys(data, inStr, str) ==
    LET bad == [ok |-> FALSE, keys |-> {}]
    IN IF data = <<>> THEN bad
       ELSE LET c == Head(data)
            IN IF ~inStr
               THEN IF c = CloseBrace THEN [ok |-> Len(data) = 1, keys |-> {}]
                    ELSE IF c = DoubleQuote THEN UnmarshalKeys(Tail(data), TRUE, <<>>)
                    ELSE bad
               ELSE IF c = DoubleQuote
                    THEN LET r == UnmarshalKeys(Tail(data), FALSE, <<>>)
                         IN [ok |-> r.ok, keys |-> r.keys \cup {str}]
                    ELSE IF c = Backslash
                         THEN IF Len(data) < 2 THEN bad
                              ELSE UnmarshalKeys(Drop(data, 2), TRUE,
                                                 Append(str, UnescapeJSON(data[2])))
                         ELSE UnmarshalKeys(Tail(data), TRUE, Append(str, c))
Unmarshal(data) ==
    IF data = <<>> \/ Head(data) # OpenBrace THEN [ok |-> FALSE, keys |-> {}]
    ELSE UnmarshalKeys(Tail(data), FALSE, <<>>)

NoPending == <<>>

NewTracker(impl) ==
    [pc |-> "idle", impl |-> impl, run |-> 1,
     disk |-> [q \in DestPaths(impl) |-> NoFile],
     mem |-> {}, pending |-> NoPending,
     marked |-> {}, written |-> {},
     loaded |-> {}, atLoad |-> {}, fresh |-> TRUE]

TrackerUntouched ==
    UNCHANGED <<st, bw, tree, stateImpl, dest, stateFile, run, phase, processed,
                inputChan, outputChan, closed, inData, outData, inDataClosed,
                outDataClosed, rd, dc, wr, wgDone, errs, faults, hist>>

TrackerInit ==
    /\ PipelineInit
    /\ tree = TreeAt(1) /\ stateImpl = "json"
    /\ st = Idle
    /\ bw = Idle
    /\ fs \in {NewTracker(impl) : impl \in {"txt", "json"}}

\* LoadState(destDir) at the start of a run
TrLoad ==
    /\ fs.pc = "idle"
    /\ LET sp == StatePath(fs.impl)
           sf == fs.disk[sp]
           seen == [fs EXCEPT !.atLoad = fs.marked, !.fresh = ~sf.exists]
       IN fs' =
            IF fs.impl = "txt"
            THEN IF ~sf.exists
                 THEN [seen EXCEPT !.pc = "running", !.mem = {}, !.loaded = {},
                                   !.disk[sp] = FileOf(<<>>)]
                 ELSE [seen EXCEPT !.pc = "running",
                                   !.mem = ScanText(sf.data, <<>>),
                                   !.loaded = ScanText(sf.data, <<>>)]
            ELSE IF ~sf.exists
                 THEN [seen EXCEPT !.pc = "running", !.mem = {}, !.loaded = {}]
                 ELSE IF Unmarshal(sf.data).ok
                      THEN [seen EXCEPT !.pc = "running",
                                        !.mem = Unmarshal(sf.data).keys,
                                        !.loaded = Unmarshal(sf.data).keys]
                      ELSE [seen EXCEPT !.pc = "aborted"]
    /\ TrackerUntouched

\* fileWriter for a file the reader did not skip: os.WriteFile of the
\* plaintext at filepath.Join(ctx.DestDir, fileData.RelPath)
TrWrite(relPath) ==
    /\ fs.pc = "running"
    /\ fs.pending = NoPending
    /\ relPath \notin fs.mem
    /\ fs' = [fs EXCEPT !.disk[Join(DestDir, relPath)] = FileOf(PlainBytes(1)),
                        !.pending = relPath,
                        !.written = @ \cup {relPath}]
    /\ TrackerUntouched

\* fileWriter after the last chunk: MarkProcessed, which in lib/state.go
\* appends relPath + "\n" through the descriptor opened with O_APPEND, and
\* in the JSON version is followed by SaveState
TrMark ==
    /\ fs.pc = "running"
    /\ fs.pending # NoPending
    /\ LET sp == StatePath(fs.impl)
           set == fs.mem \cup {fs.pending}
       IN fs' = [fs EXCEPT
                    !.mem = set,
                    !.marked = @ \cup {fs.pending},
                    !.pending = NoPending,
                    !.disk[sp] = IF fs.impl = "txt"
                                 THEN FileOf(@.data \o fs.pending \o <<NewLine>>)
                                 ELSE FileOf(MarshalIndent(set))]
    /\ TrackerUntouched

\* the process ends, at any point of a run; the next run starts from the disk
TrExit ==
    /\ fs.pc = "running"
    /\ fs.run < MaxRuns
    /\ fs' = [fs EXCEPT !.pc = "idle", !.run = @ + 1, !.mem = {},
                        !.pending = NoPending]
    /\ TrackerUntouched

\* MarkProcessed called for a path again, in the same run or in a later
\* one: lib/state.go appends only when the path is not in the map; the JSON
\* version sets the key and SaveState rewrites the file
TrMarkAgain(relPath) ==
    /\ fs.pc = "running"
    /\ relPath \in fs.marked
    /\ LET sp == StatePath(fs.impl)
           set == fs.mem \cup {relPath}
       IN fs' = [fs EXCEPT
                    !.mem = set,
                    !.disk[sp] = IF fs.impl = "txt"
                                 THEN IF relPath \in fs.mem THEN @
                                      ELSE FileOf(@.data \o relPath \o <<NewLine>>)
                                 ELSE FileOf(MarshalIndent(set))]
    /\ TrackerUntouched

TrackerNext ==
    \/ TrLoad
    \/ \E relPath \in RelPaths(fs.impl) : TrWrite(relPath)
    \/ TrMark
    \/ \E relPath \in RelPaths(fs.impl) : TrMarkAgain(relPath)
    \/ TrExit
TrackerSpec == TrackerInit /\ [][TrackerNext]_vars

\* no output was stored under the state file's name
NoCollision == StateFileName(fs.impl) \notin fs.written

\* C11: every load succeeds and returns exactly the paths marked in the runs
\* before it, and the empty set when there was no log (runs in which an
\* output took the state file's place are C12's matter and left out)
C11_LoadReconstructs ==
    NoCollision =>
        /\ fs.pc # "aborted"
        /\ fs.loaded = fs.atLoad
        /\ fs.fresh => fs.loaded = {}

\* C12: no output path is the state file's path, every output written still
\* holds its plaintext, and the state file never holds an output's plaintext
C12_StateFileApart ==
    /\ \A relPath \in fs.written :
          /\ Join(DestDir, relPath) # StatePath(fs.impl)
          /\ fs.disk[Join(DestDir, relPath)] = FileOf(PlainBytes(1))
    /\ fs.disk[StatePath(fs.impl)] # FileOf(PlainBytes(1))

(***************************************************************************)
(* The BufferedWriter of lib/buffer.go alone: a buffer of bufferSize bytes  *)
(* with a write position, a downstream writer that receives one chunk per   *)
(* successful Flush and whose Write may return an error.                    *)
(***************************************************************************)
MaxBufferSize == 3
MaxWriteLen == 4
MaxOffered == 6

Concat(chunks) ==
    LET RECURSIVE Cat(_)
        Cat(q) == IF q = <<>> THEN <<>> ELSE Head(q) \o Cat(Tail(q))
    IN Cat(chunks)

NewBufferedWriter(bufferSize) ==
    [pc |-> "open", bufferSize |-> bufferSize,
     buffer |-> Zeros(bufferSize), wPos |-> 0,
     emitted |-> <<>>,       \* the chunks the downstream writer received
     accepted |-> <<>>,      \* the bytes the Write calls reported as written
     offered |-> 0,          \* number of bytes passed to Write so far
     err |-> FALSE,          \* the last call returned an error
     atFail |-> [wPos |-> 0, buffer |-> <<>>, emitted |-> <<>>],
     fails |-> 0,
     flushed |-> FALSE]      \* a Flush call other than Close's emitted a chunk

\* Flush, whose downstream Write fails when fail is set (for comparison: one
\* that resets the write position also when the downstream Write failed)
FlushResetting(w, fail) ==
    IF w.wPos = 0 THEN [w EXCEPT !.err = FALSE]
    ELSE IF fail
         THEN [w EXCEPT !.err = TRUE, !.fails = @ + 1, !.wPos = 0,
                        !.atFail = [wPos |-> w.wPos, buffer |-> w.buffer,
                                    emitted |-> w.emitted]]
         ELSE [w EXCEPT !.err = FALSE, !.wPos = 0,
                        !.emitted = Append(@, SubSeq(w.buffer, 1, w.wPos))]
Flush(w, fail) ==
    IF w.wPos = 0 THEN [w EXCEPT !.err = FALSE]
    ELSE IF fail
         THEN [w EXCEPT !.err = TRUE, !.fails = @ + 1,
                        !.atFail = [wPos |-> w.wPos, buffer |-> w.buffer,
                                    emitted |-> w.emitted]]
         ELSE [w EXCEPT !.err = FALSE, !.wPos = 0,
                        !.emitted = Append(@, SubSeq(w.buffer, 1, w.wPos))]

\* Write: the loop copies into the free space and flushes a full buffer
\* before copying more; the failAt-th Flush of the call fails (0: none)
RECURSIVE Write(_, _, _)
Write(w, p, failAt) ==
    IF p = <<>> THEN [w EXCEPT !.err = FALSE]
    ELSE IF w.bufferSize - w.wPos = 0
         THEN LET f == Flush(w, failAt = 1)
              IN IF f.err THEN f ELSE Write(f, p, failAt - 1)
         ELSE LET toWrite == Min(Len(p), w.bufferSize - w.wPos)
              IN Write([w EXCEPT
                          !.buffer = [i \in 1..w.bufferSize |->
                                        IF i > w.wPos /\ i <= w.wPos + toWrite
                                        THEN p[i - w.wPos] ELSE w.buffer[i]],
                          !.wPos = @ + toWrite,
                          !.accepted = @ \o Take(p, toWrite)],
                       Drop(p, toWrite), failAt)

WriterUntouched ==
    UNCHANGED <<st, fs, tree, stateImpl, dest, stateFile, run, phase, processed,
                inputChan, outputChan, closed, inData, outData, inDataClosed,
                outDataClosed, rd, dc, wr, wgDone, errs, faults, hist>>

WriterInit ==
    /\ PipelineInit
    /\ tree = TreeAt(1) /\ stateImpl = "json"
    /\ st = Idle /\ fs = Idle
    /\ bw \in {NewBufferedWriter(n) : n \in 1..MaxBufferSize}

\* the n bytes of the next Write call: the bytes offered so far are numbered
NextBytes(n) == [i \in 1..n |-> bw.offered + i]

\* bw.Write(p) for a p of n bytes
BwWrite(n, failAt) ==
    /\ bw.pc = "open"
    /\ bw.offered + n <= MaxOffered
    /\ failAt > 0 => bw.fails < MaxFaults
    /\ bw' = [Write(bw, NextBytes(n), failAt) EXCEPT !.offered = bw.offered + n]
    /\ WriterUntouched

\* bw.Flush() called by the user of the writer
BwFlush(fail) ==
    /\ bw.pc = "open"
    /\ fail => bw.fails < MaxFaults
    /\ bw' = [Flush(bw, fail) EXCEPT !.flushed = @ \/ (bw.wPos > 0 /\ ~fail)]
    /\ WriterUntouched

\* bw.Close(): Flush; the writer is not used after a Close without error
BwClose(fail) ==
    /\ bw.pc = "open"
    /\ fail => bw.fails < MaxFaults
    /\ bw' = [Flush(bw, fail) EXCEPT !.pc = IF fail /\ bw.wPos > 0 THEN "open"
                                            ELSE "closed"]
    /\ WriterUntouched

WriterNext ==
    \/ \E n \in 0..MaxWriteLen, failAt \in 0..MaxWriteLen : BwWrite(n, failAt)
    \/ \E fail \in BOOLEAN : BwFlush(fail)
    \/ \E fail \in BOOLEAN : BwClose(fail)
WriterSpec == WriterInit /\ [][WriterNext]_vars

\* C21: the chunks received downstream, followed by the bytes still
\* buffered, are the bytes the Write calls accepted, in order (all the bytes
\* offered when no call failed, and all in the chunks after Close); every
\* chunk has 1..bufferSize bytes; without Flush calls of the user every chunk
\* but the one of Close has bufferSize bytes; and after a call whose
\* downstream write failed the buffer, the write position and the chunks are
\* what they were before that write
C21_WriterChunks ==
    LET n == Len(bw.emitted)
    IN /\ Concat(bw.emitted) \o SubSeq(bw.buffer, 1, bw.wPos) = bw.accepted
       /\ bw.fails = 0 => bw.accepted = [i \in 1..bw.offered |-> i]
       /\ bw.pc = "closed" => Concat(bw.emitted) = bw.accepted
       /\ \A i \in 1..n :
            /\ Len(bw.emitted[i]) >= 1
            /\ Len(bw.emitted[i]) <= bw.bufferSize
       /\ ~bw.flushed =>
            \A i \in 1..n :
                (i < n \/ bw.pc = "open") => Len(bw.emitted[i]) = bw.bufferSize
       /\ bw.err =>
            /\ bw.wPos > 0
            /\ bw.wPos = bw.atFail.wPos
            /\ bw.buffer = bw.atFail.buffer
            /\ bw.emitted = bw.atFail.emitted

\* a writer closed after a failed and a repeated Close, with a full chunk and
\* a shorter last one, and no byte lost
C21_Witness ==
    /\ bw.pc = "closed"
    /\ bw.fails > 0
    /\ ~bw.flushed
    /\ Len(bw.emitted) >= 2
    /\ Len(bw.emitted[Len(bw.emitted)]) < bw.bufferSize
    /\ Len(bw.accepted) = bw.offered
    /\ bw.offered > bw.bufferSize

\* the lines of the append log, in order
RECURSIVE LogLines(_, _)
LogLines(data, line) ==
    IF data = <<>> THEN (IF line = <<>> THEN <<>> ELSE <<DropCR(line)>>)
    ELSE IF Head(data) = NewLine
         THEN <<DropCR(line)>> \o LogLines(Tail(data), <<>>)
         ELSE LogLines(Tail(data), Append(line, Head(data)))
NoRepeat(seq) ==
    \A i, j \in 1..Len(seq) : i # j => seq[i] # seq[j]

\* C22: while a run is going on, every path marked so far, in this run or in
\* an earlier one, is in the in-memory set, and no line of the append log
\* occurs twice (runs in which an output took the state file's place are
\* C12's matter and left out)
C22_Monotonic ==
    NoCollision =>
        /\ fs.pc = "running" => fs.marked \subseteq fs.mem
        /\ (fs.impl = "txt" /\ fs.disk[StatePath("txt")].exists) =>
              NoRepeat(LogLines(fs.disk[StatePath("txt")].data, <<>>))

(***************************************************************************)
(* The directory pipeline on trees of OverlapFiles files, enough for the    *)
(* three stages to hold a file each.                                        *)
(***************************************************************************)
OverlapFiles == 3
OverlapTrees == {TreeOf(2, OverlapFiles), TreeOf(8, OverlapFiles)}

OverlapInit ==
    /\ PipelineFrom(OverlapTrees)
    /\ st = Idle /\ fs = Idle /\ bw = Idle
OverlapSpec == OverlapInit /\ [][Next]_vars

\* the files a sequence of files holds
Range(seq) == {seq[i] : i \in 1..Len(seq)}
\* the stage's file is the last one it took up, and it is done with the others
Last(seq) == seq[Len(seq)]
Earlier(seq) == {seq[i] : i \in 1..(Len(seq) - 1)}

\* Persist is done with a file when it marked it or gave it up after a failure
PersistDone(f) == f \in Range(hist.marked) \/ f \in FaultedFiles

\* C23: each stage works on one file at a time: the reader has left every
\* file it forwarded before the current one, the decryptor has closed the
\* output of every file it took up before its current one, and the writer
\* has marked or given up every file it took up before its current one
C23_OneFilePerStage ==
    phase = "running" =>
        /\ \A f \in Earlier(hist.forwardOrder) : rd.idx > NumFiles + f
        /\ hist.decryptOrder # <<>> => dc.file = Last(hist.decryptOrder)
        /\ \A f \in Earlier(hist.decryptOrder) : f \in outDataClosed
        /\ hist.persistOrder # <<>> => wr.file = Last(hist.persistOrder)
        /\ \A f \in Earlier(hist.persistOrder) : PersistDone(f)

\* Persist is writing file N, Decrypt is processing file N + 1 and Discover
\* is reading file N + 2
C23_Overlap ==
    /\ phase = "running"
    /\ \E n \in Files :
        /\ wr.file = n /\ wr.pc = "write" /\ outData[n] # <<>>
        /\ dc.file = n + 1 /\ dc.pc = "run"
        /\ rd.pc = "read" /\ rd.idx = NumFiles + n + 2

\* one step of the pipeline uses no closed channel
NoUseAfterClose ==
    \* no send on a closed channel
    /\ Len(inputChan') > Len(inputChan) => "input" \notin closed
    /\ Len(outputChan') > Len(outputChan) => "output" \notin closed
    /\ \A f \in Files :
          /\ Len(inData'[f]) > Len(inData[f]) => f \notin inDataClosed
          /\ Len(outData'[f]) > Len(outData[f]) => f \notin outDataClosed
    /\ \A q \in Paths :
          Len(errs'[q]) > Len(errs[q]) => "error" \notin closed \cup closed'
    \* the input queue: closed by Discover when its loop is over, once
    /\ "input" \in closed' \ closed => rd.pc = "next" /\ rd'.pc = "done"
    /\ (rd.pc # "done" /\ rd'.pc = "done") => "input" \notin closed
    \* the output queue: closed by Decrypt when the input queue is closed and
    \* drained, once
    /\ "output" \in closed' \ closed =>
          /\ dc.pc = "recv" /\ dc'.pc = "done"
          /\ inputChan = <<>> /\ "input" \in closed
    /\ (dc.pc # "done" /\ dc'.pc = "done") => "output" \notin closed
    \* a file's output channel: closed by Decrypt when it is done with the file
    /\ (dc.pc = "fin" /\ dc'.pc = "recv") => dc.file \notin outDataClosed
    \* the error channel: closed when all three stages have signalled, once
    /\ "error" \in closed' \ closed => wgDone = Stages
    /\ (phase = "running" /\ phase' = "done") => "error" \notin closed

\* C24: no step sends on a closed channel or closes a channel again; the
\* input queue is closed by Discover after its last send, the output queue by
\* Decrypt after the input queue is drained, the error channel after all
\* three stages have signalled completion and after every error send
C24_NoUseAfterClose == [][NoUseAfterClose]_vars

\* a run that ended with all three channels closed and errors reported
C24_Witness ==
    /\ phase = "done"
    /\ closed = {"input", "output", "error"}
    /\ \E f \in Files : errs[f] # <<>>
    /\ hist.forwardOrder # <<>>

IsPrefix(a, b) == Len(a) <= Len(b) /\ SubSeq(b, 1, Len(a)) = a
\* the place of x in a sequence that holds it
Position(seq, x) == CHOOSE i \in 1..Len(seq) : seq[i] = x

====
